---- MODULE Spec2Model ----
(***************************************************************************)
(* A model of the evaluation core of tkgc: the Metric accumulator, the     *)
(* ranking loop of evaluate, the temporal-token index of get_data and the  *)
(* control flow of main (src/src/utils.py, src/main.py).                   *)
(*                                                                         *)
(* What is outside src/ is the environment of the model: the embedding     *)
(* model (src.models) and torch's matmul / cdist produce, for every query, *)
(* one number per candidate entity, drawn here from a small set; the       *)
(* Dataset class (src.data) yields rows of integers.  main refers to names *)
(* that utils.py does not define (args.seed, utils.save, the second        *)
(* argument of get_data); the model follows main's control flow and takes  *)
(* those references to have no effect on the state modelled here.          *)
(***************************************************************************)
EXTENDS Integers, Sequences, FiniteSets

VARIABLES
    mtr,        \* the Metric object: cnt, h_1, h_3, h_10, mr, mrr
    hist,       \* the arguments of a direct caller's update calls, in order
    exc,        \* the exception the last call raised, or "none"
    shown,      \* what _normalize returned last, or <<>>
    run,        \* the entry point of the behaviour (the caller of what runs)
    args,       \* the parsed command line: model, mode, test, epochs, ...
    data,       \* e_idx_ln (entity count) and the lengths of the loaders
    pc,         \* the position in main / evaluate
    b,          \* evaluate's batch: a sequence of rows <<s, o>>
    i,          \* the index of the ranking loops of evaluate
    cur,        \* the query ranked last: its true id, its rank, and how many
                \* candidates' values lie above, at and below the true id's
    epoch,      \* main's epoch counter
    k,          \* training batches done in the current epoch
    mdl,        \* the model: its parameters' version and its training flag
    opt,        \* the optimizer: the steps it has taken
    ts_left,    \* test rows the loader ts has not yielded yet
    n_eval,     \* test rows of the evaluate calls that have returned
    files,      \* the rows of train2id.txt, valid2id.txt and test2id.txt
    t_idx,      \* get_data's mapping from temporal token to id
    ds          \* the three datasets get_data hands to its loaders

metricVars == <<mtr, hist, exc, shown>>

evalVars == <<b, i, cur>>

mainVars == <<files, t_idx, ds, run, args, data, epoch, k, mdl, opt, ts_left, n_eval>>

vars == <<mtr, hist, exc, shown, files, t_idx, ds, run, args, data, pc, b, i, cur, epoch, k, mdl, opt,
          ts_left, n_eval>>

(***************************************************************************)
(* Bounds.                                                                 *)
(***************************************************************************)
MaxRank == 5        \* ranks a direct caller passes to update: up to MaxRank
MaxNeg == 1         \* ... and down to -MaxNeg
MaxUpdates == 3     \* update calls on one Metric object
MaxEnt == 3         \* entities: e_idx_ln + the rows of evaluate's batch <= MaxEnt + 1,
                    \* e_idx_ln + the rows of main's test set <= MaxEnt
MaxEpochs == 1      \* args.epochs
MaxTrain == 1       \* len(tr), the training batches of an epoch
MaxCells == 3       \* temporal tokens in the three triple files together
MaxTok == 2         \* the largest temporal token

(***************************************************************************)
(* Python floats.  self.mrr is a float (IEEE-754 binary64): 1.0 / r is the *)
(* correctly rounded quotient and += the correctly rounded sum, both with  *)
(* 53 significant bits, round-half-to-even.  A finite value is kept as a   *)
(* sign and a magnitude counted in units of 2^-FracBits, the magnitude in  *)
(* three digits <<lo, mid, hi>> of 20 bits (hi is not reduced).  Every     *)
(* reciprocal of a rank and every sum of them is a multiple of that unit,  *)
(* so the only rounding is the one to 53 significant bits.                 *)
(***************************************************************************)
Digit == 2 ^ 20

Log2Ceil(n) == CHOOSE w \in 0..20 : 2 ^ w >= n /\ (w = 0 \/ 2 ^ (w - 1) < n)

BitLen(n) == IF n = 0 THEN 0 ELSE CHOOSE w \in 1..30 : 2 ^ (w - 1) <= n /\ n < 2 ^ w

Abs(n) == IF n < 0 THEN -n ELSE n

Max(x, y) == IF x >= y THEN x ELSE y

\* the largest |r| whose reciprocal the model forms
MaxAbsRank == Max(Max(MaxRank, MaxNeg), MaxEnt)

KMax == Log2Ceil(MaxAbsRank)

FracBits == 52 + KMax

MagZero == <<0, 0, 0>>

MagAdd(a, c) ==
    LET s0 == a[1] + c[1]
        s1 == a[2] + c[2] + (s0 \div Digit)
    IN  <<s0 % Digit, s1 % Digit, a[3] + c[3] + (s1 \div Digit)>>

MagLess(a, c) ==
    \/ a[3] < c[3]
    \/ a[3] = c[3] /\ a[2] < c[2]
    \/ a[3] = c[3] /\ a[2] = c[2] /\ a[1] < c[1]

\* a - c, for a >= c
MagSub(a, c) ==
    LET w0 == IF a[1] < c[1] THEN 1 ELSE 0
        d0 == a[1] - c[1] + w0 * Digit
        w1 == IF a[2] - w0 < c[2] THEN 1 ELSE 0
        d1 == a[2] - w0 - c[2] + w1 * Digit
    IN  <<d0, d1, a[3] - w1 - c[3]>>

\* a * 2^s, for s < 10
MagShl(a, s) ==
    LET p0 == a[1] * 2 ^ s
        p1 == a[2] * 2 ^ s + (p0 \div Digit)
    IN  <<p0 % Digit, p1 % Digit, a[3] * 2 ^ s + (p1 \div Digit)>>

\* a rounded to 53 significant bits, ties to even
MagRound(a) ==
    LET drop == 40 + BitLen(a[3]) - 53
    IN  IF a[3] = 0 \/ drop <= 0 THEN a
        ELSE LET low == a[1] % 2 ^ drop
                 half == 2 ^ (drop - 1)
                 odd == (a[1] \div 2 ^ drop) % 2 = 1
                 up == low > half \/ (low = half /\ odd)
             IN  MagAdd(<<a[1] - low, a[2], a[3]>>,
                        IF up THEN <<2 ^ drop, 0, 0>> ELSE MagZero)

\* the magnitude of the double 1.0 / r, for r >= 1: the quotient
\* 2^(52+w) / r of 53 bits by long division, rounded on the remainder
RecipMag(r) ==
    LET w == Log2Ceil(r)
        d2 == 2 ^ (12 + w)
        q2 == d2 \div r
        r2 == d2 % r
        q1 == (r2 * Digit) \div r
        r1 == (r2 * Digit) % r
        q0 == (r1 * Digit) \div r
        r0 == (r1 * Digit) % r
        up == 2 * r0 > r \/ (2 * r0 = r /\ q0 % 2 = 1)
        m == MagAdd(<<q0, q1, q2>>, IF up THEN <<1, 0, 0>> ELSE MagZero)
    IN  MagShl(m, KMax - w)

F64Zero == [inf |-> FALSE, neg |-> FALSE, mag |-> MagZero]

F64Inf == [inf |-> TRUE, neg |-> FALSE, mag |-> MagZero]

\* 1.0 / r for a numpy integer r: r = 0 gives inf (and a warning)
F64Recip(r) ==
    IF r = 0 THEN F64Inf
    ELSE [inf |-> FALSE, neg |-> r < 0, mag |-> RecipMag(Abs(r))]

\* x + y in binary64
F64Add(x, y) ==
    IF x.inf \/ y.inf THEN F64Inf
    ELSE IF x.neg = y.neg
         THEN LET m == MagRound(MagAdd(x.mag, y.mag))
              IN  [inf |-> FALSE, neg |-> x.neg /\ m # MagZero, mag |-> m]
         ELSE IF MagLess(x.mag, y.mag)
              THEN [inf |-> FALSE, neg |-> y.neg, mag |-> MagRound(MagSub(y.mag, x.mag))]
              ELSE LET m == MagRound(MagSub(x.mag, y.mag))
                   IN  [inf |-> FALSE, neg |-> x.neg /\ m # MagZero, mag |-> m]

(***************************************************************************)
(* class Metric                                                            *)
(***************************************************************************)
\* Metric.__init__
MetricNew == [cnt |-> 0, h_1 |-> 0, h_3 |-> 0, h_10 |-> 0, mr |-> 0, mrr |-> F64Zero]

\* updateCounts with the thresholds taken inclusively (r <= 2, r <= 4, r <= 11)
updateCountsInclusive(m, r) ==
    [m EXCEPT !.cnt = @ + 1,
              !.h_1 = IF r <= 2 THEN @ + 1 ELSE @,
              !.h_3 = IF r <= 4 THEN @ + 1 ELSE @,
              !.h_10 = IF r <= 11 THEN @ + 1 ELSE @,
              !.mr = @ + r]

\* updateCounts with self.mr = r in place of self.mr += r
updateCountsAssign(m, r) ==
    [m EXCEPT !.cnt = @ + 1,
              !.h_1 = IF r < 2 THEN @ + 1 ELSE @,
              !.h_3 = IF r < 4 THEN @ + 1 ELSE @,
              !.h_10 = IF r < 11 THEN @ + 1 ELSE @,
              !.mr = r]

\* Metric.update, the statements before the division (lines 39-48)
updateCounts(m, r) ==
    [m EXCEPT !.cnt = @ + 1,
              !.h_1 = IF r < 2 THEN @ + 1 ELSE @,
              !.h_3 = IF r < 4 THEN @ + 1 ELSE @,
              !.h_10 = IF r < 11 THEN @ + 1 ELSE @,
              !.mr = @ + r]

\* Metric.update, when the division at line 49 does not raise
update(m, r) == [updateCounts(m, r) EXCEPT !.mrr = F64Add(@, F64Recip(r))]

\* a / b of _normalize, kept as the pair it is the quotient of
Ratio(x, y) == <<x, y>>

\* Metric._normalize, for cnt # 0
normalize(m) ==
    <<Ratio(m.h_1, m.cnt), Ratio(m.h_3, m.cnt), Ratio(m.h_10, m.cnt),
      Ratio(m.mr, m.cnt), Ratio(m.mrr, m.cnt)>>

(***************************************************************************)
(* Values of the variables a specification does not use.                   *)
(***************************************************************************)
NoArgs == [model |-> "none", mode |-> "none", test |-> TRUE, epochs |-> 0,
           batch_size |-> 1, resume |-> ""]

NoData == [e_idx_ln |-> 0, tr_len |-> 0, ts_len |-> 0]

NoQuery == [kind |-> "none", dir |-> "none", id |-> 0, rank |-> 0, gt |-> 0, eq |-> 0,
            lt |-> 0]

NewModel == [params |-> 0, training |-> TRUE]

NoFiles == [train |-> <<>>, valid |-> <<>>, test |-> <<>>]

(***************************************************************************)
(* The Metric object driven by an arbitrary caller.                        *)
(***************************************************************************)
Ranks == (-MaxNeg)..MaxRank

\* mtr.update(r).  Dividing by a Python int 0 raises ZeroDivisionError at
\* line 49, after lines 39-48 have run; dividing by a numpy integer 0 (the
\* type evaluate passes) yields inf.
MetricUpdate(r, np) ==
    /\ run = "metric"
    /\ Len(hist) < MaxUpdates
    /\ hist' = Append(hist, r)
    /\ IF r = 0 /\ ~np
       THEN /\ mtr' = updateCounts(mtr, r)
            /\ exc' = "ZeroDivisionError"
       ELSE /\ mtr' = update(mtr, r)
            /\ exc' = "none"
    /\ UNCHANGED <<shown, pc>>
    /\ UNCHANGED evalVars
    /\ UNCHANGED mainVars

\* str(mtr) or dict(mtr): both call _normalize, which divides by cnt
MetricShow ==
    /\ run = "metric"
    /\ IF mtr.cnt = 0
       THEN /\ exc' = "ZeroDivisionError"
            /\ UNCHANGED shown
       ELSE /\ exc' = "none"
            /\ shown' = normalize(mtr)
    /\ UNCHANGED <<mtr, hist, pc>>
    /\ UNCHANGED evalVars
    /\ UNCHANGED mainVars

InitMetric ==
    /\ files = NoFiles
    /\ t_idx = <<>>
    /\ ds = NoFiles
    /\ mtr = MetricNew
    /\ hist = <<>>
    /\ exc = "none"
    /\ shown = <<>>
    /\ run = "metric"
    /\ args = NoArgs
    /\ data = NoData
    /\ pc = "idle"
    /\ b = <<>>
    /\ i = 0
    /\ cur = NoQuery
    /\ epoch = 0
    /\ k = 0
    /\ mdl = NewModel
    /\ opt = 0
    /\ ts_left = 0
    /\ n_eval = 0

NextMetric ==
    \/ \E r \in Ranks, np \in BOOLEAN : MetricUpdate(r, np)
    \/ MetricShow

SpecMetric == InitMetric /\ [][NextMetric]_vars

(***************************************************************************)
(* evaluate(args, b, mdl, mtr, dvc)                                        *)
(***************************************************************************)
Models == {"TTransE", "TADistMult", "TATransE"}

Modes == {"head", "tail", "both"}

\* the candidates: the rows of mdl.module.e_embed.weight
Ent(e) == 0..(e - 1)

\* the rows of the matmul / cdist result, one value per candidate: the
\* values 0..m, each of them taken, which is one row for every weak order of
\* the candidates (the sort compares the values and reads nothing else)
Values(e) ==
    {v \in [Ent(e) -> 0..(e - 1)] :
        \A x \in 1..(e - 1) : (\E c \in Ent(e) : v[c] = x) => (\E c \in Ent(e) : v[c] = x - 1)}

\* the orders of the candidates, for every vocabulary size of the model
Perms == [e \in 1..MaxEnt |->
             {p \in [1..e -> Ent(e)] : \A x, y \in 1..e : x # y => p[x] # p[y]}]

\* Tensor.argsort(dim=1, descending=True) on a row v: the orders it may
\* return (stable is False, so equal values come in any order)
argsortDescending(v, e) ==
    {p \in Perms[e] : \A j \in 1..(e - 1) : v[p[j]] >= v[p[j + 1]]}

\* a search that answers the position past the end for an id it does not find
argwhereOrEnd(p, id) ==
    IF \E x \in DOMAIN p : p[x] = id
    THEN {j - 1 : j \in {x \in DOMAIN p : p[x] = id}}
    ELSE {Len(p)}

\* lines 166/170 and 178/181 for one query: a row v of values and an order
\* p that argsort may return for it, for every vocabulary size
Sorted ==
    [e \in 1..MaxEnt |-> UNION {{<<v, p>> : p \in argsortDescending(v, e)} : v \in Values(e)}]

\* np.argwhere(row == id): the 0-based positions of id in the row
argwhere(p, id) == {j - 1 : j \in {x \in DOMAIN p : p[x] = id}}

Min(S) == CHOOSE x \in S : \A y \in S : x <= y

\* what lines 164-170 and 176-181 sort: the dot products of TADistMult,
\* the distances (cdist) of TTransE and TATransE
sortedKind(a) == IF a.model = "TADistMult" THEN "score" ELSE "distance"

\* mdl.module.e_embed(ids): an id that is no row of the weight raises
lookupOk(ids, e) == \A id \in ids : id \in Ent(e)

Column(rows, c) == {rows[j][c] : j \in DOMAIN rows}

\* the body of the loops at lines 171-172 and 182-183 for the query i, whose
\* row of the sorted matrix is p: np.argwhere(p == id)[0, 0] + 1 goes to
\* mtr.update; [0, 0] of an empty result raises IndexError
RankQuery(dir, v, p, id, next) ==
    LET hit == argwhere(p, id)
        q == [NoQuery EXCEPT !.kind = sortedKind(args), !.dir = dir, !.id = id]
        \* the candidates the true id is compared with: none if it is no candidate
        cand == IF id \in DOMAIN v THEN DOMAIN v ELSE {}
    IN  IF hit = {}
        THEN /\ exc' = "IndexError"
             /\ pc' = "raised"
             /\ cur' = q
             /\ UNCHANGED <<mtr, i>>
        ELSE /\ mtr' = update(mtr, Min(hit) + 1)
             /\ cur' = [q EXCEPT !.rank = Min(hit) + 1,
                                 !.gt = Cardinality({c \in cand : v[c] > v[id]}),
                                 !.eq = Cardinality({c \in cand : c # id /\ v[c] = v[id]}),
                                 !.lt = Cardinality({c \in cand : v[c] < v[id]})]
             /\ IF i = Len(b)
                THEN pc' = next /\ i' = 0
                ELSE pc' = pc /\ i' = i + 1
             /\ UNCHANGED exc

\* lines 162-170: the head block is skipped in mode tail; else the objects
\* are embedded and every candidate is scored as subject
EvalHead ==
    /\ pc = "head"
    /\ IF args.mode = "tail"
       THEN pc' = "tail" /\ UNCHANGED <<exc, i>>
       ELSE IF lookupOk(Column(b, 2), data.e_idx_ln)
            THEN pc' = "head_loop" /\ i' = 1 /\ UNCHANGED exc
            ELSE pc' = "raised" /\ exc' = "IndexError" /\ UNCHANGED i
    /\ UNCHANGED <<mtr, hist, shown, b, cur>>
    /\ UNCHANGED mainVars

\* lines 171-172, one iteration
EvalHeadStep ==
    /\ pc = "head_loop"
    /\ \E vp \in Sorted[data.e_idx_ln] : RankQuery("head", vp[1], vp[2], b[i][1], "tail")
    /\ UNCHANGED <<hist, shown, b>>
    /\ UNCHANGED mainVars

\* EvalTail with the tail block run in mode tail only
EvalTailOnly ==
    /\ pc = "tail"
    /\ IF args.mode # "tail"
       THEN pc' = "end" /\ UNCHANGED <<exc, i>>
       ELSE IF lookupOk(Column(b, 1), data.e_idx_ln)
            THEN pc' = "tail_loop" /\ i' = 1 /\ UNCHANGED exc
            ELSE pc' = "raised" /\ exc' = "IndexError" /\ UNCHANGED i
    /\ UNCHANGED <<mtr, hist, shown, b, cur>>
    /\ UNCHANGED mainVars

\* lines 174-181: the tail block is skipped in mode head
EvalTail ==
    /\ pc = "tail"
    /\ IF args.mode = "head"
       THEN pc' = "end" /\ UNCHANGED <<exc, i>>
       ELSE IF lookupOk(Column(b, 1), data.e_idx_ln)
            THEN pc' = "tail_loop" /\ i' = 1 /\ UNCHANGED exc
            ELSE pc' = "raised" /\ exc' = "IndexError" /\ UNCHANGED i
    /\ UNCHANGED <<mtr, hist, shown, b, cur>>
    /\ UNCHANGED mainVars

\* lines 182-183, one iteration
EvalTailStep ==
    /\ pc = "tail_loop"
    /\ \E vp \in Sorted[data.e_idx_ln] : RankQuery("tail", vp[1], vp[2], b[i][2], "end")
    /\ UNCHANGED <<hist, shown, b>>
    /\ UNCHANGED mainVars

\* evaluate returns, to main's loop or to its direct caller; its locals end
EvalReturn ==
    /\ pc = "end"
    /\ pc' = IF run = "main" THEN "fetch" ELSE "returned"
    /\ n_eval' = n_eval + Len(b)
    /\ cur' = NoQuery
    /\ UNCHANGED metricVars
    /\ UNCHANGED <<b, i>>
    /\ UNCHANGED <<files, t_idx, ds, run, args, data, epoch, k, mdl, opt, ts_left>>

\* batches of n rows <<s, o>> with ids in ids
Batches(n, ids) == [1..n -> ids \X ids]

\* evaluate called on any batch, the ids one past the vocabulary included
InitEval ==
    /\ files = NoFiles
    /\ t_idx = <<>>
    /\ ds = NoFiles
    /\ mtr = MetricNew
    /\ hist = <<>>
    /\ exc = "none"
    /\ shown = <<>>
    /\ run = "evaluate"
    /\ \E m \in Models, md \in Modes : args = [NoArgs EXCEPT !.model = m, !.mode = md]
    /\ \E e \in 1..MaxEnt :
          /\ data = [NoData EXCEPT !.e_idx_ln = e]
          /\ \E n \in 1..(MaxEnt + 1 - e) : b \in Batches(n, 0..e)
    /\ pc = "head"
    /\ i = 0
    /\ cur = NoQuery
    /\ epoch = 0
    /\ k = 0
    /\ mdl = [NewModel EXCEPT !.training = FALSE]
    /\ opt = 0
    /\ ts_left = 0
    /\ n_eval = 0

NextEval ==
    \/ EvalHead
    \/ EvalHeadStep
    \/ EvalTail
    \/ EvalTailStep
    \/ EvalReturn

SpecEval == InitEval /\ [][NextEval]_vars

(***************************************************************************)
(* main, from line 37 on: the set-up of lines 19-35 has built the loaders, *)
(* the model and the optimizer.  No statement of main reads args.resume    *)
(* or calls utils.resume.                                                  *)
(***************************************************************************)
log_frequency == 100

\* a run with --resume set to a path at which there is no file
ResumeMissing == args.resume = "missing.ckpt"

\* line 37 and, on entering the first epoch, line 41 (mdl.train())
MainStart ==
    /\ pc = "start"
    /\ IF ~args.test /\ args.epochs > 0
       THEN /\ pc' = "train"
            /\ mdl' = [mdl EXCEPT !.training = TRUE]
       ELSE /\ pc' = "metric"
            /\ UNCHANGED mdl
    /\ epoch' = 0
    /\ k' = 0
    /\ UNCHANGED metricVars
    /\ UNCHANGED evalVars
    /\ UNCHANGED <<files, t_idx, ds, run, args, data, opt, ts_left, n_eval>>

\* lines 43-55, one training batch: get_loss, loss.backward(), optim.step()
MainTrainStep ==
    /\ pc = "train"
    /\ k < data.tr_len
    /\ k' = k + 1
    /\ opt' = opt + 1
    /\ mdl' = [mdl EXCEPT !.params = @ + 1]
    /\ UNCHANGED metricVars
    /\ UNCHANGED evalVars
    /\ UNCHANGED <<files, t_idx, ds, run, args, data, pc, epoch, ts_left, n_eval>>

\* lines 57-80, the end of an epoch: the validation pass (mdl.eval(), no
\* step of the optimizer) when it is due; then the next epoch, with
\* mdl.train() at line 41, or the end of training
MainEpochEnd ==
    /\ pc = "train"
    /\ k = data.tr_len
    /\ LET validate == (epoch + 1) % log_frequency = 0 \/ epoch = args.epochs - 1
       IN  IF epoch + 1 < args.epochs
           THEN /\ epoch' = epoch + 1
                /\ k' = 0
                /\ mdl' = [mdl EXCEPT !.training = TRUE]
                /\ UNCHANGED pc
           ELSE /\ pc' = "metric"
                /\ mdl' = [mdl EXCEPT !.training = IF validate THEN FALSE ELSE @]
                /\ UNCHANGED <<epoch, k>>
    /\ UNCHANGED metricVars
    /\ UNCHANGED evalVars
    /\ UNCHANGED <<files, t_idx, ds, run, args, data, opt, ts_left, n_eval>>

\* lines 82-83: mtr = utils.Metric(); mdl.eval()
MainMetric ==
    /\ pc = "metric"
    /\ mtr' = MetricNew
    /\ mdl' = [mdl EXCEPT !.training = FALSE]
    /\ pc' = "fetch"
    /\ UNCHANGED <<hist, exc, shown>>
    /\ UNCHANGED evalVars
    /\ UNCHANGED <<files, t_idx, ds, run, args, data, epoch, k, opt, ts_left, n_eval>>

\* MainFetch with logger.info(mtr) inside the loop, after every batch
MainFetchLogging ==
    /\ pc = "fetch"
    /\ shown' = IF mtr.cnt = 0 THEN shown ELSE normalize(mtr)
    /\ IF ts_left = 0
       THEN /\ pc' = "report"
            /\ UNCHANGED <<b, ts_left>>
       ELSE \E n \in {IF args.batch_size < ts_left THEN args.batch_size ELSE ts_left} :
               /\ b' \in [1..n -> Ent(data.e_idx_ln) \X Ent(data.e_idx_ln)]
               /\ ts_left' = ts_left - n
               /\ pc' = "head"
    /\ UNCHANGED <<mtr, hist, exc, i, cur>>
    /\ UNCHANGED <<files, t_idx, ds, run, args, data, epoch, k, mdl, opt, n_eval>>

\* lines 84-86: the loader ts yields its next batch, of batch_size rows (the
\* last one of what is left), and evaluate is called on it; an exhausted
\* loader ends the loop
MainFetch ==
    /\ pc = "fetch"
    /\ IF ts_left = 0
       THEN /\ pc' = "report"
            /\ UNCHANGED <<b, ts_left>>
       ELSE \E n \in {IF args.batch_size < ts_left THEN args.batch_size ELSE ts_left} :
               /\ b' \in [1..n -> Ent(data.e_idx_ln) \X Ent(data.e_idx_ln)]
               /\ ts_left' = ts_left - n
               /\ pc' = "head"
    /\ UNCHANGED <<mtr, hist, exc, shown, i, cur>>
    /\ UNCHANGED <<files, t_idx, ds, run, args, data, epoch, k, mdl, opt, n_eval>>

\* line 87: logger.info(mtr).  logging formats the record with str(mtr); a
\* ZeroDivisionError of _normalize (cnt = 0) is caught by the handler and
\* printed, and main goes on
MainReport ==
    /\ pc = "report"
    /\ shown' = IF mtr.cnt = 0 THEN shown ELSE normalize(mtr)
    /\ pc' = "hparams"
    /\ UNCHANGED <<mtr, hist, exc>>
    /\ UNCHANGED evalVars
    /\ UNCHANGED mainVars

\* lines 89-91: dict(mtr) iterates the Metric, which calls _normalize; then
\* the writer is closed
MainHparams ==
    /\ pc = "hparams"
    /\ IF mtr.cnt = 0
       THEN /\ exc' = "ZeroDivisionError"
            /\ pc' = "raised"
            /\ UNCHANGED shown
       ELSE /\ shown' = normalize(mtr)
            /\ pc' = "done"
            /\ UNCHANGED exc
    /\ UNCHANGED <<mtr, hist>>
    /\ UNCHANGED evalVars
    /\ UNCHANGED mainVars

Init ==
    /\ files = NoFiles
    /\ t_idx = <<>>
    /\ ds = NoFiles
    /\ mtr = MetricNew
    /\ hist = <<>>
    /\ exc = "none"
    /\ shown = <<>>
    /\ run = "main"
    /\ \E e \in 1..MaxEnt, n \in 0..MaxEnt :
          /\ e + n <= MaxEnt
          /\ data \in [e_idx_ln : {e}, tr_len : 1..MaxTrain, ts_len : {n}]
          /\ ts_left = n
          /\ args \in [model : Models, mode : Modes, test : BOOLEAN, epochs : 0..MaxEpochs,
                       batch_size : 1..Max(n, 1),
                       resume : {"", "missing.ckpt", "saved.ckpt"}]
    /\ pc = "start"
    /\ b = <<>>
    /\ i = 0
    /\ cur = NoQuery
    /\ epoch = 0
    /\ k = 0
    /\ mdl = NewModel
    /\ opt = 0
    /\ n_eval = 0

Next ==
    \/ MainStart
    \/ MainTrainStep
    \/ MainEpochEnd
    \/ MainMetric
    \/ MainFetch
    \/ EvalHead
    \/ EvalHeadStep
    \/ EvalTail
    \/ EvalTailStep
    \/ EvalReturn
    \/ MainReport
    \/ MainHparams

Spec == Init /\ [][Next]_vars

(***************************************************************************)
(* get_data: the temporal-token index (lines 91-100).                      *)
(***************************************************************************)
\* Dataset(args, path, e_idx_ln) as np.concatenate reads it: an array of
\* shape (1, rows, 3 + T), a row being s, o, r and T temporal tokens
DatasetArray(rows) == <<rows>>

\* np.concatenate(arrays, axis=1): the rows of the arrays, one after another
RECURSIVE concatenateRows(_)
concatenateRows(arrays) ==
    IF arrays = <<>> THEN <<>>
    ELSE <<Head(arrays)[1] \o (IF Len(arrays) = 1 THEN <<>> ELSE concatenateRows(Tail(arrays))[1])>>

\* a[0, :, 3:].flatten(): the temporal tokens of every row, row by row
RECURSIVE flattenTokens(_)
flattenTokens(rows) ==
    IF rows = <<>> THEN <<>>
    ELSE SubSeq(Head(rows), 4, Len(Head(rows))) \o flattenTokens(Tail(rows))

\* x put at its place in the ascending sequence u, unless it is there
RECURSIVE insertSorted(_, _)
insertSorted(u, x) ==
    IF u = <<>> THEN <<x>>
    ELSE IF x = Head(u) THEN u
    ELSE IF x < Head(u) THEN <<x>> \o u
    ELSE <<Head(u)>> \o insertSorted(Tail(u), x)

\* the distinct elements of a sequence in the order of their first occurrence
RECURSIVE uniqueInOrder(_)
uniqueInOrder(a) ==
    IF a = <<>> THEN <<>>
    ELSE LET u == uniqueInOrder(SubSeq(a, 1, Len(a) - 1))
         IN  IF \E j \in DOMAIN u : u[j] = a[Len(a)] THEN u ELSE Append(u, a[Len(a)])

\* np.unique(a): the sorted distinct elements of a
RECURSIVE unique(_)
unique(a) ==
    IF a = <<>> THEN <<>>
    ELSE insertSorted(unique(SubSeq(a, 1, Len(a) - 1)), a[Len(a)])

\* {e: i for i, e in enumerate(u)}
enumerateDict(u) == [e \in {u[j] : j \in DOMAIN u} |-> (CHOOSE j \in DOMAIN u : u[j] = e) - 1]

\* line 95
buildIndex(tr_ds, vd_ds, ts_ds) ==
    enumerateDict(unique(flattenTokens(concatenateRows(<<tr_ds, vd_ds, ts_ds>>)[1])))

\* Dataset.transform(t_idx, ...): the temporal tokens of every row replaced
\* by their ids
transform(rows, idx) ==
    [j \in DOMAIN rows |-> [c \in DOMAIN rows[j] |-> IF c > 3 THEN idx[rows[j][c]] ELSE rows[j][c]]]

\* lines 91-100: the datasets are loaded, the index is built from the three
\* of them and each is transformed with it
GetData ==
    /\ pc = "get_data"
    /\ LET tr_ds == DatasetArray(files.train)
           vd_ds == DatasetArray(files.valid)
           ts_ds == DatasetArray(files.test)
           idx == buildIndex(tr_ds, vd_ds, ts_ds)
       IN  /\ t_idx' = idx
           /\ ds' = [train |-> transform(files.train, idx),
                     valid |-> transform(files.valid, idx),
                     test |-> transform(files.test, idx)]
    /\ pc' = "indexed"
    /\ UNCHANGED metricVars
    /\ UNCHANGED evalVars
    /\ UNCHANGED <<files, run, args, data, epoch, k, mdl, opt, ts_left, n_eval>>

\* rows of T temporal tokens
TokenRows(T) == {<<0, 0, 0>> \o t : t \in [1..T -> 0..MaxTok]}

InitIndex ==
    /\ mtr = MetricNew
    /\ hist = <<>>
    /\ exc = "none"
    /\ shown = <<>>
    /\ \E T \in 1..MaxCells, n1 \in 0..MaxCells, n2 \in 0..MaxCells, n3 \in 0..MaxCells :
          /\ (n1 + n2 + n3) * T <= MaxCells
          /\ files \in [train : [1..n1 -> TokenRows(T)], valid : [1..n2 -> TokenRows(T)],
                        test : [1..n3 -> TokenRows(T)]]
    /\ t_idx = <<>>
    /\ ds = NoFiles
    /\ run = "get_data"
    /\ args = NoArgs
    /\ data = NoData
    /\ pc = "get_data"
    /\ b = <<>>
    /\ i = 0
    /\ cur = NoQuery
    /\ epoch = 0
    /\ k = 0
    /\ mdl = NewModel
    /\ opt = 0
    /\ ts_left = 0
    /\ n_eval = 0

NextIndex == GetData

SpecIndex == InitIndex /\ [][NextIndex]_vars

(***************************************************************************)
(* Properties of the Metric object (SpecMetric).                           *)
(***************************************************************************)
Last(h) == h[Len(h)]

AllRanksValid(h) == \A j \in DOMAIN h : h[j] >= 1

\* the Metric a fresh object becomes by the update calls h, in that order
RECURSIVE Accumulate(_, _)
Accumulate(m, h) == IF h = <<>> THEN m ELSE Accumulate(update(m, Head(h)), Tail(h))

Occurrences(h, x) == Cardinality({j \in DOMAIN h : h[j] = x})

\* the sequences that hold the ranks of h in some order
Reorderings(h) ==
    {g \in [DOMAIN h -> {h[j] : j \in DOMAIN h}] :
        \A j \in DOMAIN h : Occurrences(g, h[j]) = Occurrences(h, h[j])}

\* a * c, for a small c
MagMul(a, c) ==
    LET p0 == a[1] * c
        p1 == a[2] * c + (p0 \div Digit)
    IN  <<p0 % Digit, p1 % Digit, a[3] * c + (p1 \div Digit)>>

MagDist(a, c) == IF MagLess(a, c) THEN MagSub(c, a) ELSE MagSub(a, c)

\* a <= c
MagLeq(a, c) == ~MagLess(c, a)

\* the unit in the last place of the double of magnitude a
MagUlp(a) == 2 ^ Max(40 + BitLen(a[3]) - 53, 0)

\* x is a double nearest to the fraction num / den (0 < num, 0 < den, small)
NearestDouble(x, num, den) ==
    /\ ~x.inf
    /\ ~x.neg
    /\ MagLeq(MagMul(MagDist(MagMul(x.mag, den), MagMul(<<0, 0, 2 ^ (FracBits - 40)>>, num)), 2),
              <<den * MagUlp(x.mag), 0, 0>>)

C4_OrderIndependent ==
    AllRanksValid(hist) => \A g \in Reorderings(hist) : Accumulate(MetricNew, g) = mtr

\* C4, amended: the same ranks in any order give the same cnt, h_1, h_3,
\* h_10 and mr; the float mrr is the same up to rounding only, two orders of
\* n ranks differing by at most n * (n - 1) * 2^-52; the ranks 2, 5, 1 give,
\* in every order, cnt = 3, h_1 = 1, h_3 = 2, h_10 = 3, mr = 8 and the double
\* nearest 1.7.
C4_OrderIndependentUpToRounding ==
    AllRanksValid(hist) =>
       /\ \A g \in Reorderings(hist) :
             LET m == Accumulate(MetricNew, g)
             IN  /\ m.cnt = mtr.cnt
                 /\ m.h_1 = mtr.h_1
                 /\ m.h_3 = mtr.h_3
                 /\ m.h_10 = mtr.h_10
                 /\ m.mr = mtr.mr
                 /\ ~m.mrr.inf /\ ~mtr.mrr.inf
                 /\ m.mrr.neg = mtr.mrr.neg
                 /\ MagLeq(MagDist(m.mrr.mag, mtr.mrr.mag),
                           <<Len(hist) * (Len(hist) - 1) * 2 ^ (FracBits - 52), 0, 0>>)
       /\ hist \in Reorderings(<<2, 5, 1>>) =>
             /\ mtr.cnt = 3
             /\ mtr.h_1 = 1
             /\ mtr.h_3 = 2
             /\ mtr.h_10 = 3
             /\ mtr.mr = 8
             /\ NearestDouble(mtr.mrr, 17, 10)

\* the ranks 2, 5, 1 have been applied in another order
C4_Witness == hist = <<5, 1, 2>> /\ mtr.mr = 8 /\ mtr.cnt = 3

\* C8, as claimed: update with a rank <= 0 fails, and the rank is not
\* accumulated into the counters.
C8_NonPositiveRankFails ==
    [][(hist' # hist /\ Last(hist') <= 0) => (exc' # "none" /\ mtr' = mtr)]_vars

(***************************************************************************)
(* Properties of evaluate (SpecEval).                                      *)
(***************************************************************************)
\* C1, as claimed, in the case without ties: for the distance models the
\* rank passed to update is 1 + the number of candidates strictly closer
\* to the query than the true entity, in head and in tail ranking.
C1_CloserRanksFirst ==
    (cur.kind = "distance" /\ cur.rank > 0 /\ cur.eq = 0) => cur.rank = 1 + cur.lt

\* C2, as claimed: the recorded rank is 1 + the number of candidates whose
\* score is strictly higher than the true entity's, ties included.
C2_RankCountsStrictlyHigher ==
    (cur.kind = "score" /\ cur.rank > 0) => cur.rank = 1 + cur.gt

\* the true id of the query the ranking loops are at
TrueId == IF pc = "head_loop" THEN b[i][1] ELSE b[i][2]

\* C7: a query whose true id is not among the candidates makes evaluate raise
\* at that query, nothing is recorded for it, and evaluate does not go on.
C7_AbsentTrueIdAborts ==
    [][/\ pc # "raised"
       /\ (pc \in {"head_loop", "tail_loop"} /\ TrueId \notin Ent(data.e_idx_ln)) =>
             (pc' = "raised" /\ exc' = "IndexError" /\ mtr' = mtr)]_vars

\* the second query of a batch has raised, after the first was recorded
C7_Witness ==
    /\ pc = "raised"
    /\ exc = "IndexError"
    /\ i = 2
    /\ cur.kind # "none"
    /\ cur.id \notin Ent(data.e_idx_ln)
    /\ cur.rank = 0
    /\ mtr.cnt = 1

(***************************************************************************)
(* Properties of get_data (SpecIndex).                                     *)
(***************************************************************************)
\* the temporal tokens of a triple file
FileTokens(rows) == UNION {{rows[j][c] : c \in 4..Len(rows[j])} : j \in DOMAIN rows}

AllTokens == FileTokens(files.train) \cup FileTokens(files.valid) \cup FileTokens(files.test)

\* the tokens of the three files in the order get_data reads them
ReadOrder == flattenTokens(files.train \o files.valid \o files.test)

\* C6: the mapping covers the union of the temporal tokens of the train,
\* validation and test splits, gives each token one id, is a bijection onto
\* [0, count), and numbers the tokens in ascending order of their value, so
\* that any other order of occurrence of the same tokens gives the same ids.
C6_TokenIndex ==
    pc = "indexed" =>
       /\ DOMAIN t_idx = AllTokens
       /\ \A t1, t2 \in DOMAIN t_idx : t1 # t2 => t_idx[t1] # t_idx[t2]
       /\ {t_idx[t] : t \in DOMAIN t_idx} = 0..(Cardinality(AllTokens) - 1)
       /\ \A t1, t2 \in DOMAIN t_idx : t1 < t2 => t_idx[t1] < t_idx[t2]
       /\ \A g \in Reorderings(ReadOrder) : enumerateDict(unique(g)) = t_idx

\* a token of the test split alone is indexed, before a token read earlier
C6_Witness ==
    /\ pc = "indexed"
    /\ FileTokens(files.train) = {2}
    /\ FileTokens(files.valid) = {1}
    /\ FileTokens(files.test) = {0}
    /\ t_idx[0] = 0
    /\ t_idx[1] = 1
    /\ t_idx[2] = 2

(***************************************************************************)
(* Properties of a run of main (Spec).                                     *)
(***************************************************************************)
UpdatesPerTriple == IF args.mode = "both" THEN 2 ELSE 1

\* C5: evaluate makes two update calls for a test triple in mode both and one
\* in mode head or tail: between the evaluate calls and after them cnt is
\* 2 * N (both) or N (head, tail) for the N triples evaluated, which at the end
\* of the loop are all the triples of the test set.
C5_UpdatesPerTriple ==
    /\ pc \in {"fetch", "report", "hparams", "done"} => mtr.cnt = UpdatesPerTriple * n_eval
    /\ pc \in {"report", "hparams", "done"} => n_eval = data.ts_len

\* two test triples have been evaluated in mode both, in two evaluate calls
C5_Witness ==
    /\ pc = "done"
    /\ args.mode = "both"
    /\ args.batch_size = 1
    /\ data.ts_len = 2
    /\ n_eval = 2
    /\ mtr.cnt = 4

C10_FinalizedReadOnly ==
    [][/\ pc \in {"report", "hparams"} => mtr' = mtr
       /\ shown' # shown => (mtr.cnt # 0 /\ shown' = normalize(mtr))
       /\ shown # <<>> => mtr' = mtr]_vars

\* the metrics of an accumulator that took two ranks have been produced
C10_Witness ==
    /\ pc = "done"
    /\ mtr.cnt = 2
    /\ shown = normalize(mtr)

====
